---------------------------- MODULE Spec2Model ----------------------------
(***************************************************************************)
(* ResourcesManager of neo-one-server                                      *)
(* (src/packages/neo-one-server/src/ResourcesManager.js) as a state        *)
(* machine.  One ResourcesManager exists per (plugin, resourceType); the   *)
(* PluginManager resolves a ResourceDependency to its manager, so the      *)
(* per-manager maps of the source (_resourceAdapters, _createTaskList ...) *)
(* are modelled as maps keyed by the whole ResourceDependency triple.      *)
(* The TaskList runtime (@neo-one/server-plugin) is not among the sources; *)
(* its semantics are taken from section 4.1 of the specification.          *)
(***************************************************************************)
EXTENDS Naturals, Sequences, FiniteSets, TLC

\* ------------------------------------------------------------------ bounds

\* User-issued create/delete/start/stop calls in one behaviour.
MaxUserCalls == 2
\* Create hooks that plugins register (addCreateHook).
MaxHooks == 1
\* Failures of adapters, hooks and file I/O injected in one behaviour.
MaxFailures == 1
\* User calls made one after the other, each after the last has settled.
MaxTripCalls == 3
\* User calls on a parent with dependents.
MaxGraphCalls == 1

\* ---------------------------------------------------------------- universe

Dep(t, n) == [plugin |-> "p", resourceType |-> t, name |-> n]

NA == Dep("node", "a")
NB == Dep("node", "b")
NC == Dep("node", "c")
WA == Dep("wallet", "a")

\* Every resource a behaviour may name: three nodes and one wallet whose
\* name collides with a node's.
Res == {NA, NB, NC, WA}

\* resourceType.getCRUD() of the two resource types: "node" declares start
\* and stop and starts on create, "wallet" declares neither.
HasStart(r) == r.resourceType = "node"
HasStop(r) == r.resourceType = "node"
StartOnCreate(r) == r.resourceType = "node"

Ops == {"create", "delete", "start", "stop"}

\* ----------------------------------------------------------------- helpers

RECURSIVE SeqToSet(_)
SeqToSet(s) == IF s = <<>> THEN {} ELSE {Head(s)} \cup SeqToSet(Tail(s))

RECURSIVE FilterSeq(_, _)
FilterSeq(s, S) ==
    IF s = <<>> THEN <<>>
    ELSE IF Head(s) \in S THEN <<Head(s)>> \o FilterSeq(Tail(s), S)
         ELSE FilterSeq(Tail(s), S)

\* _.uniqBy(deps, d => `${plugin}:${resourceType}:${name}`): the first
\* occurrence of every triple, in order.
RECURSIVE UniqFrom(_, _)
UniqFrom(s, seen) ==
    IF s = <<>> THEN <<>>
    ELSE IF Head(s) \in seen THEN UniqFrom(Tail(s), seen)
         ELSE <<Head(s)>> \o UniqFrom(Tail(s), seen \cup {Head(s)})

_uniqueDeps(deps) == UniqFrom(deps, {})

\* _getStartDeps / _getStopDeps: the members whose type declares the op.
_getStartDeps(deps) == FilterSeq(deps, {r \in Res : HasStart(r)})
_getStopDeps(deps) == FilterSeq(deps, {r \in Res : HasStop(r)})


\* ------------------------------------------------------------------- state

VARIABLES
    adapters,        \* _resourceAdapters: "none" (no key), "undef" (key whose
                     \* value is undefined) or "live" (an adapter)
    started,         \* _resourceAdaptersStarted (undefined reads as FALSE)
    direct,          \* _directResourceDependents (no key reads as <<>>)
    rdeps,           \* _resourceDependents (no key reads as <<>>)
    slot,            \* _createTaskList, _deleteTaskList, _startTaskList,
                     \* _stopTaskList: the id of the stored TaskList, 0 if none
    ready,           \* ready/<name> markers on disk
    depsFile,        \* dependencies/<name>.json: <<>> if missing, else <<list>>
    dependentsFile,  \* dependents/<name>.json: <<>> if missing, else <<list>>
    tl,              \* the TaskList objects that have not settled yet, by id
    nextId,          \* the id the next `new TaskList` gets
    userCalls,       \* user-issued calls so far
    hooks,           \* _createHooks.length
    lastEmit,        \* per resource type: the keys of _resourceAdapters when
                     \* update$ last emitted
    inited,          \* per resource type: init() has returned
    initErrors,      \* the resources init() returned an InitError for
    failures,        \* failures injected so far
    snap,            \* per resource: <<>>, or the record of a round trip:
                     \* the disk before the create and how far it got
    rolled           \* the resources whose last create was aborted after
                     \* its create-adapter task had started

vars == <<adapters, started, direct, rdeps, slot, ready, depsFile,
          dependentsFile, tl, nextId, userCalls, hooks, lastEmit, inited,
          initErrors, failures, snap, rolled>>

Types == {"node", "wallet"}

\* The whole state as one record, so that a handler and the calls it makes
\* compose as functions from state to state.
Cur ==
    [adapters |-> adapters, started |-> started, direct |-> direct,
     rdeps |-> rdeps, slot |-> slot, ready |-> ready, depsFile |-> depsFile,
     dependentsFile |-> dependentsFile, tl |-> tl, nextId |-> nextId,
     userCalls |-> userCalls, hooks |-> hooks, lastEmit |-> lastEmit,
     inited |-> inited, initErrors |-> initErrors, failures |-> failures,
     snap |-> snap, rolled |-> rolled]

Becomes(s) ==
    /\ adapters' = s.adapters
    /\ started' = s.started
    /\ direct' = s.direct
    /\ rdeps' = s.rdeps
    /\ slot' = s.slot
    /\ ready' = s.ready
    /\ depsFile' = s.depsFile
    /\ dependentsFile' = s.dependentsFile
    /\ tl' = s.tl
    \* ids name the TaskList objects still referenced: with none left the
    \* numbering starts over
    /\ nextId' = IF DOMAIN s.tl = {} THEN 1 ELSE s.nextId
    /\ userCalls' = s.userCalls
    /\ hooks' = s.hooks
    /\ lastEmit' = s.lastEmit
    /\ inited' = s.inited
    /\ initErrors' = s.initErrors
    /\ failures' = s.failures
    /\ snap' = s.snap
    /\ rolled' = s.rolled

Live(s) == DOMAIN s.tl

\* `x != null` of an entry of _resourceAdapters: an undefined value is null.
NotNull(a) == a = "live"

\* utils.values / keys of _resourceAdapters of one manager.
Keys(s, t) == {r \in Res : r.resourceType = t /\ s.adapters[r] # "none"}

\* this._update$.next() of the manager of resource type t.
Update(s, t) == [s EXCEPT !.lastEmit[t] = Keys(s, t)]

\* ------------------------------------------------- TaskList objects (4.1)

EmptyCtx == [resourceAdapter |-> "none", dependencies |-> <<>>,
             dependents |-> <<>>]

\* CreateTasks without the start task.
CreateTasksNoStart(r) == <<"createAdapter", "finalSetup", "hooks">>

\* The tasks of the four pipelines, in order.
CreateTasks(r) ==
    <<"createAdapter", "finalSetup">>
    \o (IF StartOnCreate(r) /\ HasStart(r) THEN <<"startOnCreate">> ELSE <<>>)
    \o <<"hooks">>

\* DeleteTasks with the nested stop after adapter.delete.
DeleteTasksStopLate(r) ==
    <<"abortCreate">>
    \o (IF HasStart(r) THEN <<"abortStart">> ELSE <<>>)
    \o <<"deleteDeps", "adapterDelete">>
    \o (IF HasStop(r) THEN <<"stopNested">> ELSE <<>>)
    \o <<"finalCleanup">>

DeleteTasks(r) ==
    <<"abortCreate">>
    \o (IF HasStart(r) THEN <<"abortStart">> ELSE <<>>)
    \o (IF HasStop(r) THEN <<"stopNested">> ELSE <<>>)
    \o <<"deleteDeps", "adapterDelete", "finalCleanup">>

\* StartTasks with the abort of the stop last.
StartTasksAbortLast == <<"startDeps", "adapterStart", "abortStop">>

StartTasks == <<"abortStop", "startDeps", "adapterStart">>

\* StopTasks with the adapter stopped before the dependents.
StopTasksAdapterFirst ==
    <<"abortStart", "adapterStop", "stopDependents", "stopCreated">>

StopTasks == <<"abortStart", "stopDependents", "adapterStop", "stopCreated">>

TasksOf(op, r) ==
    CASE op = "create" -> CreateTasks(r)
      [] op = "delete" -> DeleteTasks(r)
      [] op = "start" -> StartTasks
      [] op = "stop" -> StopTasks

\* A TaskList object of one of the four operations, as constructed by the
\* call: what the closures of its tasks captured, and where it stands.
NewTaskList(id, op, r, parent, s) ==
    [id |-> id, op |-> op, res |-> r, parent |-> parent,
     \* shouldSkip, negated: this object is the one stored in the slot
     owner |-> s.slot[op][r] = 0,
     resourceAdapter |-> s.adapters[r],
     startedCap |-> s.started[r],
     createTaskList |-> s.slot["create"][r],
     startTaskList |-> s.slot["start"][r],
     stopTaskList |-> s.slot["stop"][r],
     dependents |->
        CASE op = "delete" -> _uniqueDeps(s.rdeps[r] \o s.direct[r])
          [] op = "stop" -> _getStopDeps(s.rdeps[r])
          [] OTHER -> <<>>,
     directDependents |->
        CASE op = "start" -> _getStartDeps(s.direct[r])
          [] op = "stop" -> _getStopDeps(s.direct[r])
          [] OTHER -> <<>>,
     pc |-> 1, phase |-> "ready", waiting |-> {}, todo |-> <<>>,
     err |-> FALSE, aborted |-> FALSE,
     ctx |-> EmptyCtx, set |-> FALSE, hist |-> <<>>]

Put(f, id, l) == [i \in DOMAIN f \cup {id} |-> IF i = id THEN l ELSE f[i]]
Drop(f, id) == [i \in DOMAIN f \ {id} |-> f[i]]

Note(l, e) == [l EXCEPT !.hist = Append(@, e)]

\* The next task's turn.
Advance(l) == [l EXCEPT !.pc = @ + 1, !.phase = "ready", !.waiting = {},
                        !.todo = <<>>]

\* The record of a round trip, kept from a create of r that runs at a
\* quiescent point: the on-disk state of r's manager before the create.
Snapshot(s, r) ==
    [phase |-> "creating",
     ready |-> {x \in s.ready : x.resourceType = r.resourceType},
     dependencies |-> s.depsFile[r],
     dependents |-> s.dependentsFile[r],
     cascade |-> FALSE]

\* The round trip goes on with the first delete called after the create
\* has completed.
Watch(s, l) ==
    IF /\ l.op = "delete" /\ l.owner
       /\ s.snap[l.res] # <<>> /\ s.snap[l.res][1].phase = "created"
    THEN [s EXCEPT !.snap[l.res][1].phase = "deleting",
                   !.snap[l.res][1].cascade = l.dependents # <<>>]
    ELSE s

\* The round trip ends, or is given up, when the TaskList settles.
WatchDone(s, l, op, from, to, failed) ==
    IF l.op = op /\ l.owner /\ s.snap[l.res] # <<>>
    THEN IF ~failed /\ s.snap[l.res][1].phase = from
         THEN [s EXCEPT !.snap[l.res][1].phase = to]
         ELSE [s EXCEPT !.snap[l.res] = <<>>]
    ELSE s

\* Call with the `if (!shouldSkip)` around the store left out.
CallStoreAlways(s, op, r, parent) ==
    LET l == NewTaskList(s.nextId, op, r, parent, s)
    IN  [Watch(s, l) EXCEPT !.tl = Put(@, l.id, l),
                  !.nextId = @ + 1,
                  !.slot[op][r] = l.id]

\* create / delete / start / stop up to the return: a new TaskList is
\* constructed on every call and stored in the operation's slot only
\* `if (!shouldSkip)`.
Call(s, op, r, parent) ==
    LET l == NewTaskList(s.nextId, op, r, parent, s)
    IN  [Watch(s, l) EXCEPT !.tl = Put(@, l.id, l),
                  !.nextId = @ + 1,
                  !.slot[op][r] = IF l.owner THEN l.id ELSE @]

\* abort(): marks the list and, recursively, the nested lists it is running.
RECURSIVE Nested(_, _)
Nested(f, S) ==
    LET N == S \cup UNION {f[i].waiting : i \in S \cap DOMAIN f}
    IN  IF N = S THEN S ELSE Nested(f, N)

Abort(s, id) ==
    LET hit == Nested(s.tl, {id}) \cap DOMAIN s.tl
    IN  [s EXCEPT !.tl = [i \in DOMAIN @ |->
                            IF i \in hit THEN [@[i] EXCEPT !.aborted = TRUE]
                            ELSE @[i]]]

\* CallNested with a re-entrant call returning the TaskList in the slot.
CallNestedShared(s, i, op, r) ==
    IF s.slot[op][r] # 0
    THEN [s EXCEPT !.tl[i] = Note([@ EXCEPT !.phase = "wait",
                                            !.waiting = @ \cup {s.slot[op][r]}],
                                  <<"call", r, FALSE>>)]
    ELSE LET s1 == Call(s, op, r, i)
         IN  [s1 EXCEPT !.tl[i] = Note([@ EXCEPT !.phase = "wait",
                                                  !.waiting = @ \cup {s.nextId}],
                                       <<"call", r, TRUE>>)]

\* A task whose task() returns the TaskList of a nested operation.
CallNested(s, i, op, r) ==
    LET s1 == Call(s, op, r, i)
    IN  [s1 EXCEPT !.tl[i] = Note([@ EXCEPT !.phase = "wait",
                                             !.waiting = @ \cup {s.nextId}],
                                  <<"call", r, s.slot[op][r] = 0>>)]

\* manager.start / manager.stop throw synchronously for a type that
\* declares no start or no stop: the task that made the call fails.
Callable(op, r) == op \in {"start", "stop"} => HasStart(r) /\ HasStop(r)

\* The tasks of _deleteDeps / _startDeps / _stopDeps started in list order.
RECURSIVE CallEach(_, _, _, _)
CallEach(s, i, op, deps) ==
    IF deps = <<>> THEN s
    ELSE IF Callable(op, Head(deps))
         THEN CallEach(CallNested(s, i, op, Head(deps)), i, op, Tail(deps))
         ELSE CallEach([s EXCEPT !.tl[i].err = TRUE,
                                 !.tl[i].phase = "wait"], i, op, Tail(deps))

\* _deleteDeps and _stopDeps are concurrent: true, _startDeps is
\* concurrent: false.
_deleteDeps(s, i, deps) == CallEach(s, i, "delete", deps)

_stopDeps(s, i, deps) == CallEach(s, i, "stop", deps)

\* _startDeps as a concurrent list.
_startDepsConcurrent(s, i, deps) == CallEach(s, i, "start", deps)

_startDeps(s, i, deps) ==
    LET s1 == CallEach(s, i, "start", <<Head(deps)>>)
    IN  [s1 EXCEPT !.tl[i].todo = Tail(deps)]

\* ------------------------------------------------------------- the tasks

_addDependents(s, r, dependencies) ==
    [s EXCEPT !.rdeps = [d \in Res |->
        IF d \in SeqToSet(dependencies)
        THEN @[d] \o [k \in 1..Cardinality({j \in 1..Len(dependencies) :
                                              dependencies[j] = d}) |-> r]
        ELSE @[d]]]

\* setFromContext of create: runs once per TaskList.
setFromContext(s, i) ==
    LET l == s.tl[i] IN
    IF l.set THEN s
    ELSE LET s1 == [s EXCEPT
                      !.tl[i].set = TRUE,
                      !.adapters[l.res] =
                          IF l.ctx.resourceAdapter = "live" THEN "live"
                          ELSE "undef",
                      !.direct[l.res] = l.ctx.dependents]
         IN  Update(_addDependents(s1, l.res, l.ctx.dependencies),
                    l.res.resourceType)

IsNull(a) == ~NotNull(a)

\* enabled() of a task, evaluated at its turn.
TaskEnabled(s, l, kind) ==
    CASE kind = "startOnCreate" -> StartOnCreate(l.res)
      [] kind = "hooks" -> s.hooks > 0
      [] kind = "abortCreate" -> l.createTaskList # 0
      [] kind = "abortStart" -> l.startTaskList # 0
      [] kind = "abortStop" -> l.stopTaskList # 0
      [] kind = "stopNested" -> s.started[l.res]
      [] kind \in {"deleteDeps", "stopDependents"} -> Len(l.dependents) > 0
      [] kind \in {"startDeps", "stopCreated"} -> Len(l.directDependents) > 0
      [] OTHER -> TRUE

\* TaskSkip with every task of delete skipped for a missing adapter.
TaskSkipPreliminary(l, kind) ==
    CASE l.op = "create" -> ~l.owner \/ NotNull(l.resourceAdapter)
      [] l.op = "delete" -> ~l.owner \/ IsNull(l.resourceAdapter)
      [] l.op = "start" ->
            IF kind = "abortStop" THEN ~l.owner
            ELSE ~l.owner \/ IsNull(l.resourceAdapter) \/ l.startedCap
      [] l.op = "stop" -> ~l.owner \/ IsNull(l.resourceAdapter)

\* TaskSkip with create skipping only on re-entry.
TaskSkipOnReentry(l, kind) ==
    CASE l.op = "create" -> ~l.owner
      [] l.op = "delete" ->
            IF kind \in {"abortCreate", "abortStart", "stopNested"} THEN FALSE
            ELSE ~l.owner \/ IsNull(l.resourceAdapter)
      [] l.op = "start" ->
            IF kind = "abortStop" THEN ~l.owner
            ELSE ~l.owner \/ IsNull(l.resourceAdapter) \/ l.startedCap
      [] l.op = "stop" -> ~l.owner \/ IsNull(l.resourceAdapter)

\* skip() of a task, evaluated at its turn, over what the call captured.
TaskSkip(l, kind) ==
    CASE l.op = "create" -> ~l.owner \/ NotNull(l.resourceAdapter)
      [] l.op = "delete" ->
            IF kind \in {"abortCreate", "abortStart", "stopNested"} THEN FALSE
            ELSE ~l.owner \/ IsNull(l.resourceAdapter)
      [] l.op = "start" ->
            IF kind = "abortStop" THEN ~l.owner
            ELSE ~l.owner \/ IsNull(l.resourceAdapter) \/ l.startedCap
      [] l.op = "stop" -> ~l.owner \/ IsNull(l.resourceAdapter)

\* task() of a task that is enabled and not skipped.
Invoke(s, i, kind) ==
    LET l == s.tl[i] IN
    CASE kind \in {"createAdapter", "hooks", "adapterDelete", "adapterStart",
                   "adapterStop"} ->
            [s EXCEPT !.tl[i] = Note([l EXCEPT !.phase = "leaf"],
                                     <<"invoke", kind>>)]
      [] kind = "finalSetup" ->
            LET s1 == setFromContext(s, i)
            IN  [s1 EXCEPT !.tl[i] = Note([@ EXCEPT !.phase = "await"],
                                          <<"invoke", kind>>)]
      [] kind = "finalCleanup" ->
            \* _destroy: delete this._resourceAdapters[name], then
            \* await resourceAdapter.destroy()
            [s EXCEPT !.adapters[l.res] = "none",
                      !.tl[i] = Note([l EXCEPT !.phase = "destroy"],
                                     <<"invoke", kind>>)]
      [] kind = "abortCreate" ->
            LET s1 == Abort(s, l.createTaskList)
            IN  [s1 EXCEPT !.tl[i] = Advance(Note(@, <<"abort", "create">>))]
      [] kind = "abortStart" ->
            LET s1 == Abort(s, l.startTaskList)
            IN  [s1 EXCEPT !.tl[i] = Advance(Note(@, <<"abort", "start">>))]
      [] kind = "abortStop" ->
            LET s1 == Abort(s, l.stopTaskList)
            IN  [s1 EXCEPT !.tl[i] = Advance(Note(@, <<"abort", "stop">>))]
      [] kind = "startOnCreate" -> CallNested(s, i, "start", l.res)
      [] kind = "stopNested" -> CallNested(s, i, "stop", l.res)
      [] kind = "deleteDeps" -> _deleteDeps(s, i, l.dependents)
      [] kind = "stopDependents" -> _stopDeps(s, i, l.dependents)
      [] kind = "stopCreated" -> _stopDeps(s, i, l.directDependents)
      [] kind = "startDeps" -> _startDeps(s, i, l.directDependents)

\* --------------------------------------------- onError, onComplete, onDone

\* CreateOnError with the context dropped.
CreateOnErrorDropsContext(s, i) == s

\* onError of create: `if (!shouldSkip) setFromContext(ctx)`.
CreateOnError(s, i) == IF s.tl[i].owner THEN setFromContext(s, i) ELSE s

\* The create-adapter task of the TaskList has started.
Started(l, kind) == \E k \in DOMAIN l.hist : l.hist[k] = <<"invoke", kind>>

\* A create that settles aborted after its create-adapter task had started
\* is remembered until the next create of the resource.
RollsBack(s, l) ==
    IF l.aborted /\ Started(l, "createAdapter")
    THEN [s EXCEPT !.rolled = @ \cup {l.res}]
    ELSE s

\* onDone of create.
CreateOnDone(s, i, failed) ==
    LET l == s.tl[i] IN
    IF l.owner
    THEN LET s1 == [WatchDone(RollsBack(s, l), l, "create", "creating",
                              "created", failed)
                      EXCEPT !.slot["create"][l.res] = 0]
         IN  IF failed THEN Call(s1, "delete", l.res, 0) ELSE s1
    ELSE s

\* onDone of delete.
DeleteOnDone(s, i, failed) ==
    LET l == s.tl[i]
        s1 == IF l.owner
              THEN [WatchDone(s, l, "delete", "deleting", "deleted", failed)
                      EXCEPT !.slot["delete"][l.res] = 0]
              ELSE s
    IN  Update(s1, l.res.resourceType)

\* StartOnDone with the stop left out.
StartOnDoneNoStop(s, i, failed) ==
    LET l == s.tl[i]
        s1 == IF l.owner
              THEN [s EXCEPT !.started[l.res] = TRUE,
                             !.slot["start"][l.res] = 0]
              ELSE s
    IN  Update(s1, l.res.resourceType)

\* onDone of start.
StartOnDone(s, i, failed) ==
    LET l == s.tl[i]
        s1 == IF l.owner
              THEN LET s2 == [s EXCEPT !.started[l.res] = TRUE,
                                       !.slot["start"][l.res] = 0]
                   IN  IF failed THEN Call(s2, "stop", l.res, 0) ELSE s2
              ELSE s
    IN  Update(s1, l.res.resourceType)

\* StopOnComplete that leaves started as it is.
StopOnCompleteKeeps(s, i) == s

\* onComplete of stop.
StopOnComplete(s, i) == [s EXCEPT !.started[s.tl[i].res] = FALSE]

\* onDone of stop.
StopOnDone(s, i, failed) ==
    LET l == s.tl[i]
        s1 == IF l.owner THEN [s EXCEPT !.slot["stop"][l.res] = 0] ELSE s
    IN  Update(s1, l.res.resourceType)

OnError(s, i) == IF s.tl[i].op = "create" THEN CreateOnError(s, i) ELSE s

OnComplete(s, i) == IF s.tl[i].op = "stop" THEN StopOnComplete(s, i) ELSE s

OnDone(s, i, failed) ==
    CASE s.tl[i].op = "create" -> CreateOnDone(s, i, failed)
      [] s.tl[i].op = "delete" -> DeleteOnDone(s, i, failed)
      [] s.tl[i].op = "start" -> StartOnDone(s, i, failed)
      [] s.tl[i].op = "stop" -> StopOnDone(s, i, failed)

\* ------------------------------------------------ the TaskList runtime

Concurrent(kind) == kind \in {"deleteDeps", "stopDependents", "stopCreated"}

KindAt(l) == TasksOf(l.op, l.res)[l.pc]

\* A list whose nested lists have all settled goes on: it fails if one of
\* them failed, starts the next task of a sequential nested list, or takes
\* its own next task.
Resume(s, i) ==
    LET l == s.tl[i] IN
    IF l.phase # "wait" \/ l.waiting # {} THEN s
    ELSE IF l.err \/ l.aborted THEN [s EXCEPT !.tl[i].phase = "ready"]
    ELSE IF l.todo # <<>> THEN _startDeps(s, i, l.todo)
    ELSE [s EXCEPT !.tl[i] = Advance(l)]

\* The parent of a settled nested list learns of it; the failure of one
\* task of a concurrent list aborts the tasks still in flight.
Settled(s, p, c, r, outcome) ==
    IF p = 0 \/ p \notin DOMAIN s.tl THEN s
    ELSE LET l == s.tl[p]
             s1 == [s EXCEPT !.tl[p] =
                      Note([l EXCEPT !.waiting = @ \ {c},
                                     !.err = @ \/ outcome # "ok"],
                           <<"settled", r, outcome>>)]
             rest == l.waiting \ {c}
             s2 == IF outcome # "ok" /\ Concurrent(KindAt(l))
                   THEN [s1 EXCEPT !.tl = [j \in DOMAIN @ |->
                            IF j \in Nested(s1.tl, rest) \cap DOMAIN @
                            THEN [@[j] EXCEPT !.aborted = TRUE] ELSE @[j]]]
                   ELSE s1
         IN  Resume(s2, p)

\* A TaskList settles: "ok" (onComplete, onDone(false)), "failed" (onError,
\* onDone(true)) or "aborted" (onDone(true) alone).
Finish(s, i, outcome) ==
    LET l == s.tl[i]
        s1 == CASE outcome = "failed" -> OnError(s, i)
                [] outcome = "ok" -> OnComplete(s, i)
                [] OTHER -> s
        s2 == OnDone(s1, i, outcome # "ok")
        s3 == [s2 EXCEPT !.tl = Drop(@, i)]
    IN  Settled(s3, l.parent, i, l.res, outcome)

\* The turn of the list: tasks that are not enabled are left out and tasks
\* whose skip() holds are skipped, up to the first task that runs (enabled(),
\* then skip(), then task()) or to the end of the list.
RECURSIVE Turn(_, _)
Turn(s, i) ==
    LET l == s.tl[i] IN
    IF l.aborted THEN Finish(s, i, "aborted")
    ELSE IF l.err THEN Finish(s, i, "failed")
    ELSE IF l.pc > Len(TasksOf(l.op, l.res)) THEN Finish(s, i, "ok")
    ELSE IF ~TaskEnabled(s, l, KindAt(l))
         THEN Turn([s EXCEPT !.tl[i] = Advance(l)], i)
    ELSE IF TaskSkip(l, KindAt(l))
         THEN Turn([s EXCEPT !.tl[i] =
                      Advance(Note(l, <<"skip", KindAt(l)>>))], i)
    ELSE Resume(Invoke(s, i, KindAt(l)), i)

\* ------------------------------------------------ external collaborators

Ctx(deps, dependents) ==
    [resourceAdapter |-> "live", dependencies |-> deps,
     dependents |-> dependents]

Files == {"ready", "dependencies", "dependents"}

\* The outcomes of the three parallel writes (or removals) of one task: all
\* of them, or a failure after none, the marker alone or the JSON files
\* alone went through.
IOOutcomes == {Files, {}, {"ready"}, {"dependencies", "dependents"}}

\* ----------------------------------------------------------------- actions

\* The failure budget of a behaviour.
MayFail(ok) == ok \/ failures < MaxFailures
Failed(s, ok) == IF ok THEN s ELSE [s EXCEPT !.failures = @ + 1]

Step(i) ==
    /\ i \in DOMAIN tl
    /\ tl[i].phase = "ready"
    /\ Becomes(Turn(Cur, i))

\* The TaskList of an adapter (start, stop, delete), or the concurrent list
\* of the create hooks, settles.
LeafSettle(i, ok) ==
    /\ i \in DOMAIN tl
    /\ tl[i].phase = "leaf"
    /\ KindAt(tl[i]) # "createAdapter"
    /\ MayFail(ok)
    /\ Becomes([Failed(Cur, ok) EXCEPT !.tl[i] =
          IF ok THEN Advance(Note(@, <<"done", KindAt(@), TRUE>>))
          ELSE Note([@ EXCEPT !.phase = "ready", !.err = TRUE],
                    <<"done", KindAt(@), FALSE>>)])

\* The TaskList of createResourceAdapter settles, having written ctx.
CreateAdapterSettle(i, ok, ctx) ==
    /\ i \in DOMAIN tl
    /\ tl[i].phase = "leaf"
    /\ KindAt(tl[i]) = "createAdapter"
    /\ ok => ctx # EmptyCtx
    /\ MayFail(ok)
    /\ Becomes([Failed(Cur, ok) EXCEPT !.tl[i] =
          IF ok THEN Advance(Note([@ EXCEPT !.ctx = ctx],
                                  <<"done", "createAdapter", TRUE>>))
          ELSE Note([@ EXCEPT !.ctx = ctx, !.phase = "ready", !.err = TRUE],
                    <<"done", "createAdapter", FALSE>>)])

Undef(s, t) == \E r \in Res : r.resourceType = t /\ s.adapters[r] = "undef"

\* Final setup of create, after setFromContext: getResource$ yields the
\* resource's snapshot, or resources$ fails on an undefined adapter.
AwaitResource(i) ==
    /\ i \in DOMAIN tl
    /\ tl[i].phase = "await"
    /\ LET r == tl[i].res IN
       IF Undef(Cur, r.resourceType)
       THEN Becomes([Cur EXCEPT !.tl[i].phase = "ready", !.tl[i].err = TRUE])
       ELSE /\ adapters[r] = "live"
            /\ Becomes([Cur EXCEPT !.tl[i].phase = "write"])

\* Final setup of create: the ready marker and the two JSON files; w are
\* the writes that succeeded.
SetupWritten(i, w) ==
    /\ i \in DOMAIN tl
    /\ tl[i].phase = "write"
    /\ MayFail(w = Files)
    /\ LET l == tl[i]
           s1 == [Failed(Cur, w = Files) EXCEPT
                    !.ready = IF "ready" \in w THEN @ \cup {l.res} ELSE @,
                    !.depsFile[l.res] =
                        IF "dependencies" \in w THEN <<l.ctx.dependencies>>
                        ELSE @,
                    !.dependentsFile[l.res] =
                        IF "dependents" \in w THEN <<l.ctx.dependents>>
                        ELSE @]
       IN  Becomes([s1 EXCEPT !.tl[i] =
              IF w = Files THEN Advance(Note(l, <<"done", "finalSetup", TRUE>>))
              ELSE Note([l EXCEPT !.phase = "ready", !.err = TRUE],
                        <<"done", "finalSetup", FALSE>>)])

\* Final cleanup of delete: resourceAdapter.destroy() settles; then
\* releasePort and the three removals begin.
DestroySettle(i, ok) ==
    /\ i \in DOMAIN tl
    /\ tl[i].phase = "destroy"
    /\ MayFail(ok)
    /\ Becomes([Failed(Cur, ok) EXCEPT !.tl[i] =
          IF ok THEN Note([@ EXCEPT !.phase = "remove"], <<"releasePort">>)
          ELSE Note([@ EXCEPT !.phase = "ready", !.err = TRUE],
                    <<"done", "finalCleanup", FALSE>>)])

\* Removed with the removal of the dependencies file left out.
RemovedButDependencies(s, r, w) ==
    [s EXCEPT !.ready = IF "ready" \in w THEN @ \ {r} ELSE @,
              !.dependentsFile[r] = IF "dependents" \in w THEN <<>> ELSE @]

\* The disk after the removals w of the final cleanup of r: the ready
\* marker, dependencies/<name>.json and dependents/<name>.json.
Removed(s, r, w) ==
    [s EXCEPT !.ready = IF "ready" \in w THEN @ \ {r} ELSE @,
              !.depsFile[r] = IF "dependencies" \in w THEN <<>> ELSE @,
              !.dependentsFile[r] = IF "dependents" \in w THEN <<>> ELSE @]

\* Final cleanup of delete: w are the removals that succeeded; after all
\* three the two dependent maps are cleared.
RemoveSettle(i, w) ==
    /\ i \in DOMAIN tl
    /\ tl[i].phase = "remove"
    /\ MayFail(w = Files)
    /\ LET l == tl[i]
           s1 == Removed(Failed(Cur, w = Files), l.res, w)
       IN  IF w = Files
           THEN Becomes([s1 EXCEPT
                    !.rdeps[l.res] = <<>>,
                    !.direct[l.res] = <<>>,
                    !.tl[i] = Advance(Note(l, <<"done", "finalCleanup", TRUE>>))])
           ELSE Becomes([s1 EXCEPT !.tl[i] =
                    Note([l EXCEPT !.phase = "ready", !.err = TRUE],
                         <<"done", "finalCleanup", FALSE>>)])

\* A create or delete issued by the user ends the round trips of the other
\* resources; a create that will run begins one, if nothing is in flight.
Begin(s, op, r) ==
    IF op \notin {"create", "delete"} THEN s
    ELSE [s EXCEPT !.rolled = IF op = "create" THEN @ \ {r} ELSE @,
                   !.snap = [x \in Res |->
            IF x # r THEN <<>>
            ELSE IF \/ op = "delete"
                    \/ NotNull(s.adapters[r])
                    \/ s.slot["create"][r] # 0 THEN @[x]
            ELSE IF DOMAIN s.tl = {} THEN <<Snapshot(s, r)>>
            ELSE <<>>]]

\* A call of the user, on a manager whose init() has returned.
Issue(op, r) ==
    /\ inited[r.resourceType]
    /\ Callable(op, r)
    /\ Becomes([Call(Begin(Cur, op, r), op, r, 0) EXCEPT !.userCalls = @ + 1])

UserCall(op, r) ==
    /\ userCalls < MaxUserCalls
    /\ Issue(op, r)

\* The holder of the TaskList that create(r) returned calls abort() on it
\* once its create-adapter task has started.
AbortCreate(r) ==
    /\ slot["create"][r] \in DOMAIN tl
    /\ ~tl[slot["create"][r]].aborted
    /\ Started(tl[slot["create"][r]], "createAdapter")
    /\ Becomes(Abort(Cur, slot["create"][r]))

\* The holder of the TaskList that start(r) returned calls abort() on it.
AbortStart(r) ==
    /\ slot["start"][r] \in DOMAIN tl
    /\ ~tl[slot["start"][r]].aborted
    /\ Becomes(Abort(Cur, slot["start"][r]))

UserCreate(r) == UserCall("create", r)
UserDelete(r) == UserCall("delete", r)
UserStart(r) == UserCall("start", r)
UserStop(r) == UserCall("stop", r)

Empty ==
    /\ adapters = [r \in Res |-> "none"]
    /\ started = [r \in Res |-> FALSE]
    /\ direct = [r \in Res |-> <<>>]
    /\ rdeps = [r \in Res |-> <<>>]
    /\ slot = [op \in Ops |-> [r \in Res |-> 0]]
    /\ ready = {}
    /\ depsFile = [r \in Res |-> <<>>]
    /\ dependentsFile = [r \in Res |-> <<>>]
    /\ tl = <<>>
    /\ nextId = 1
    /\ userCalls = 0
    /\ lastEmit = [t \in Types |-> {}]
    /\ inited = [t \in Types |-> TRUE]
    /\ initErrors = {}
    /\ failures = 0
    /\ snap = [r \in Res |-> <<>>]
    /\ rolled = {}

Quiescent == DOMAIN tl = {}

\* ---------------------------------------------- Spec: one node's lifecycle
\* The managers constructed over an empty data path, init() returned and
\* the plugins' create hooks registered; the user creates, deletes, starts
\* and stops node a, whose adapter declares no dependencies, in any
\* interleaving, and adapters, hooks and file I/O may fail.

Init == Empty /\ hooks \in 0..MaxHooks

Next ==
    \/ UserCreate(NA)
    \/ UserDelete(NA)
    \/ UserStart(NA)
    \/ UserStop(NA)
    \/ \E i \in DOMAIN tl : Step(i)
    \/ \E i \in DOMAIN tl, ok \in BOOLEAN : LeafSettle(i, ok)
    \/ \E i \in DOMAIN tl, ok \in BOOLEAN :
          \E ctx \in {Ctx(<<>>, <<>>), EmptyCtx} :
             CreateAdapterSettle(i, ok, ctx)
    \/ \E i \in DOMAIN tl : AwaitResource(i)
    \/ \E i \in DOMAIN tl, w \in IOOutcomes : SetupWritten(i, w)
    \/ \E i \in DOMAIN tl, ok \in BOOLEAN : DestroySettle(i, ok)
    \/ \E i \in DOMAIN tl, w \in IOOutcomes : RemoveSettle(i, w)

Spec == Init /\ [][Next]_vars

\* ------------------------------------------------------------------ init()

\* The orders in which the per-resource steps of init() can complete.
Perms(S) ==
    {p \in [1..Cardinality(S) -> S] : \A x \in S : \E k \in DOMAIN p : p[k] = x}

\* _readDeps: the file's list, [] for a missing file (ENOENT).
_readDeps(file) == IF file = <<>> THEN <<>> ELSE file[1]

\* InitOne with the catch returning nothing.
InitOneUnreported(s, r, mode) ==
    CASE mode = "ok" ->
            _addDependents(
                [s EXCEPT !.adapters[r] = "live",
                          !.direct[r] = _readDeps(s.dependentsFile[r])],
                r, _readDeps(s.depsFile[r]))
      [] mode = "read" ->
            [s EXCEPT !.adapters[r] = "live", !.failures = @ + 1]
      [] mode = "init" ->
            [s EXCEPT !.failures = @ + 1]

\* InitOne without the publication of the inverse edges.
InitOneNoEdges(s, r, mode) ==
    CASE mode = "ok" ->
            [s EXCEPT !.adapters[r] = "live",
                      !.direct[r] = _readDeps(s.dependentsFile[r])]
      [] mode = "read" ->
            [s EXCEPT !.adapters[r] = "live",
                      !.initErrors = @ \cup {r},
                      !.failures = @ + 1]
      [] mode = "init" ->
            [s EXCEPT !.initErrors = @ \cup {r}, !.failures = @ + 1]

\* One resource of init(): initResourceAdapter and the two reads run in
\* parallel; only if all three succeed are the direct dependents set and the
\* inverse edges published.  mode "init": initResourceAdapter rejects;
\* "read": a dependency file cannot be read, the adapter having been
\* installed by _init; otherwise "ok".
InitOne(s, r, mode) ==
    CASE mode = "ok" ->
            _addDependents(
                [s EXCEPT !.adapters[r] = "live",
                          !.direct[r] = _readDeps(s.dependentsFile[r])],
                r, _readDeps(s.depsFile[r]))
      [] mode = "read" ->
            [s EXCEPT !.adapters[r] = "live",
                      !.initErrors = @ \cup {r},
                      !.failures = @ + 1]
      [] mode = "init" ->
            [s EXCEPT !.initErrors = @ \cup {r}, !.failures = @ + 1]

RECURSIVE InitEach(_, _, _)
InitEach(s, order, mode) ==
    IF order = <<>> THEN s
    ELSE InitEach(InitOne(s, Head(order), mode[Head(order)]), Tail(order),
                  mode)

\* init() of the manager of resource type t, from the ready markers to the
\* returned InitErrors.
init(s, t, order, mode) ==
    LET s1 == [s EXCEPT !.adapters = [r \in Res |->
                            IF r.resourceType = t THEN "none" ELSE @[r]]]
        s2 == InitEach(s1, order, mode)
    IN  Update([s2 EXCEPT !.inited[t] = TRUE], t)

ReadyOf(t) == {r \in ready : r.resourceType = t}

InitManager(t, order, mode) ==
    /\ ~inited[t]
    /\ order \in Perms(ReadyOf(t))
    /\ mode \in [ReadyOf(t) -> {"ok", "init", "read"}]
    /\ failures + Cardinality({r \in ReadyOf(t) : mode[r] # "ok"})
          <= MaxFailures
    /\ Becomes(init(Cur, t, order, mode))

\* ------------------------------------------------ SpecInit: server start
\* The managers constructed over a data path left by an earlier run; init()
\* of the two managers, in either order, with failing resources.

\* The data paths: node a with or without its children b and wallet a, node
\* b and wallet a with or without dependencies on node a and on each other.
DiskDependencies(r) ==
    CASE r = NA -> {<<>>, <<<<>>>>}
      [] r = NB -> {<<>>, <<<<>>>>, <<<<NA>>>>, <<<<NA, WA>>>>}
      [] r = NC -> {<<>>}
      [] r = WA -> {<<>>, <<<<NA>>>>, <<<<NB>>>>}

DiskDependents(r) ==
    CASE r = NA -> {<<>>, <<<<NB, WA>>>>}
      [] r = NB -> {<<<<>>>>}
      [] r = NC -> {<<>>}
      [] r = WA -> {<<<<>>>>}

Constructed0 ==
    /\ adapters = [r \in Res |-> "none"]
    /\ started = [r \in Res |-> FALSE]
    /\ direct = [r \in Res |-> <<>>]
    /\ rdeps = [r \in Res |-> <<>>]
    /\ slot = [op \in Ops |-> [r \in Res |-> 0]]
    /\ tl = <<>>
    /\ nextId = 1
    /\ userCalls = 0
    /\ hooks = 0
    /\ lastEmit = [t \in Types |-> {}]
    /\ inited = [t \in Types |-> FALSE]
    /\ initErrors = {}
    /\ failures = 0
    /\ snap = [r \in Res |-> <<>>]
    /\ rolled = {}

InitDisk ==
    /\ Constructed0
    /\ ready \in SUBSET {NA, NB, WA}
    /\ depsFile \in [Res -> UNION {DiskDependencies(r) : r \in Res}]
    /\ dependentsFile \in [Res -> UNION {DiskDependents(r) : r \in Res}]
    /\ \A r \in Res :
          /\ depsFile[r] \in DiskDependencies(r)
          /\ dependentsFile[r] \in DiskDependents(r)
          /\ r \notin ready => depsFile[r] = <<>> /\ dependentsFile[r] = <<>>

NextInit ==
    \E t \in Types :
        \E order \in Perms(ReadyOf(t)) :
            \E mode \in [ReadyOf(t) -> {"ok", "init", "read"}] :
                InitManager(t, order, mode)

SpecInit == InitDisk /\ [][NextInit]_vars

\* ------------------------------------------- the managers after init()

\* The managers as constructed over a data path.
Boot(rdy, dependencies, dependents) ==
    [adapters |-> [r \in Res |-> "none"],
     started |-> [r \in Res |-> FALSE],
     direct |-> [r \in Res |-> <<>>],
     rdeps |-> [r \in Res |-> <<>>],
     slot |-> [op \in Ops |-> [r \in Res |-> 0]],
     ready |-> rdy,
     depsFile |-> [r \in Res |->
                     IF r \in rdy THEN <<dependencies[r]>> ELSE <<>>],
     dependentsFile |-> [r \in Res |->
                     IF r \in rdy THEN <<dependents[r]>> ELSE <<>>],
     tl |-> <<>>, nextId |-> 1, userCalls |-> 0, hooks |-> 0,
     lastEmit |-> [t \in Types |-> {}],
     inited |-> [t \in Types |-> FALSE],
     initErrors |-> {}, failures |-> 0,
     snap |-> [r \in Res |-> <<>>], rolled |-> {}]

InitAll(s, t) ==
    LET S == {r \in s.ready : r.resourceType = t}
    IN  init(s, t, CHOOSE o \in Perms(S) : TRUE, [r \in S |-> "ok"])

\* The managers after init() of both has returned without an InitError.
Loaded(rdy, dependencies, dependents) ==
    InitAll(InitAll(Boot(rdy, dependencies, dependents), "node"), "wallet")

Is(s) ==
    /\ adapters = s.adapters
    /\ started = s.started
    /\ direct = s.direct
    /\ rdeps = s.rdeps
    /\ slot = s.slot
    /\ ready = s.ready
    /\ depsFile = s.depsFile
    /\ dependentsFile = s.dependentsFile
    /\ tl = s.tl
    /\ nextId = s.nextId
    /\ userCalls = s.userCalls
    /\ hooks = s.hooks
    /\ lastEmit = s.lastEmit
    /\ inited = s.inited
    /\ initErrors = s.initErrors
    /\ failures = s.failures
    /\ snap = s.snap
    /\ rolled = s.rolled

None == [r \in Res |-> <<>>]

\* The steps of the TaskLists in flight, the adapters' contexts drawn from
\* ctxs.
Run(ctxs) ==
    \/ \E i \in DOMAIN tl : Step(i)
    \/ \E i \in DOMAIN tl, ok \in BOOLEAN : LeafSettle(i, ok)
    \/ \E i \in DOMAIN tl, ok \in BOOLEAN :
          \E ctx \in ctxs \cup {EmptyCtx} : CreateAdapterSettle(i, ok, ctx)
    \/ \E i \in DOMAIN tl : AwaitResource(i)
    \/ \E i \in DOMAIN tl, w \in IOOutcomes : SetupWritten(i, w)
    \/ \E i \in DOMAIN tl, ok \in BOOLEAN : DestroySettle(i, ok)
    \/ \E i \in DOMAIN tl, w \in IOOutcomes : RemoveSettle(i, w)

\* -------------------------------------- SpecTrip: create, then delete
\* Node a is created and deleted, with or without a dependency on wallet a,
\* in a node manager that has or has not loaded a node b whose dependencies
\* file names node a; the user awaits each TaskList before the next call.

InitTrip ==
    \/ Is(Loaded({}, None, None))
    \/ Is(Loaded({NB}, [None EXCEPT ![NB] = <<NA>>], None))

NextTrip ==
    \/ Quiescent /\ userCalls < MaxTripCalls /\ Issue("create", NA)
    \/ Quiescent /\ userCalls < MaxTripCalls /\ Issue("delete", NA)
    \/ Run({Ctx(<<>>, <<>>), Ctx(<<WA>>, <<>>)})

SpecTrip == InitTrip /\ [][NextTrip]_vars

\* ------------------------------------- SpecGraph: start and stop a parent
\* init() has loaded node a with its created children, nodes b and c (its
\* dependents file), and with nodes b and wallet a depending on it (their
\* dependencies files); the user starts and stops node a.

InitGraph ==
    Is(Loaded({NA, NB, NC, WA},
              [None EXCEPT ![NB] = <<NA>>, ![WA] = <<NA>>],
              [None EXCEPT ![NA] = <<NB, NC>>]))

NextGraph ==
    \/ userCalls < MaxGraphCalls /\ UserStart(NA)
    \/ userCalls < MaxGraphCalls /\ UserStop(NA)
    \/ \E i \in DOMAIN tl : Step(i)
    \/ \E i \in DOMAIN tl, ok \in BOOLEAN : LeafSettle(i, ok)

SpecGraph == InitGraph /\ [][NextGraph]_vars

\* ---------------------------------- SpecStart: a start that ends early
\* From the same loaded graph the user starts or stops node a, and the
\* holder of the TaskList of the start may abort it.

NextStart ==
    \/ NextGraph
    \/ AbortStart(NA)

SpecStart == InitGraph /\ [][NextStart]_vars

\* --------------------------------- SpecPair: start and stop interleaved
\* init() has loaded node a with its created child, node b; the user starts
\* and stops node a in any interleaving.

InitPair ==
    Is(Loaded({NA, NB}, None, [None EXCEPT ![NA] = <<NB>>]))

NextPair ==
    \/ UserStart(NA)
    \/ UserStop(NA)
    \/ \E i \in DOMAIN tl : Step(i)
    \/ \E i \in DOMAIN tl, ok \in BOOLEAN : LeafSettle(i, ok)

SpecPair == InitPair /\ [][NextPair]_vars

\* ------------------------------------------ SpecDelete: delete a parent
\* From the same loaded graph the user deletes node a, and node b, which is
\* both a created child of node a and depends on it.

NextDelete ==
    \/ UserDelete(NA)
    \/ UserDelete(NB)
    \/ \E i \in DOMAIN tl : Step(i)
    \/ \E i \in DOMAIN tl, ok \in BOOLEAN : LeafSettle(i, ok)
    \/ \E i \in DOMAIN tl, ok \in BOOLEAN : DestroySettle(i, ok)
    \/ \E i \in DOMAIN tl, w \in IOOutcomes : RemoveSettle(i, w)

SpecDelete == InitGraph /\ [][NextDelete]_vars

\* --------------------------------------- SpecAbort: an aborted create
\* Node a is created over an empty data path and the create is aborted, by
\* the holder of its TaskList or by a delete of node a.

NextAbort ==
    \/ UserCreate(NA)
    \/ UserDelete(NA)
    \/ AbortCreate(NA)
    \/ Run({Ctx(<<>>, <<>>)})

SpecAbort == Init /\ [][NextAbort]_vars

\* ------------------------------------------- SpecCreate: creates alone
\* Node a is created, and created again, over an empty data path with the
\* plugins' create hooks registered; its adapter declares a dependency on
\* wallet a and node b as a created child.

InitCreate == Empty /\ hooks = MaxHooks

NextCreate ==
    \/ UserCreate(NA)
    \/ Run({Ctx(<<WA>>, <<NB>>)})

SpecCreate == InitCreate /\ [][NextCreate]_vars

\* ------------------------------------ SpecRace: delete during a create
\* init() has loaded node b, whose dependencies file names node a; the user
\* creates node a and deletes it, in any interleaving.

InitRace == Is(Loaded({NB}, [None EXCEPT ![NB] = <<NA>>], None))

NextRace ==
    \/ UserCreate(NA)
    \/ UserDelete(NA)
    \/ Run({Ctx(<<>>, <<>>)})

SpecRace == InitRace /\ [][NextRace]_vars

\* ------------------------------------------- SpecCycle: cyclic edges
\* init() has loaded nodes a and b and wallet a from a data path on which
\* node a and node b name each other as dependency and as created child,
\* and node a and wallet a name each other as dependency; the user deletes,
\* starts or stops node a.  Every TaskList in flight takes its turns and
\* every adapter TaskList and file operation settles.

InitCycle ==
    Is(Loaded({NA, NB, WA},
              [None EXCEPT ![NA] = <<NB, WA>>, ![NB] = <<NA>>, ![WA] = <<NA>>],
              [None EXCEPT ![NA] = <<NB>>, ![NB] = <<NA>>]))

Steps == \E i \in DOMAIN tl : Step(i)

Settles ==
    \/ \E i \in DOMAIN tl, ok \in BOOLEAN : LeafSettle(i, ok)
    \/ \E i \in DOMAIN tl, ok \in BOOLEAN : DestroySettle(i, ok)
    \/ \E i \in DOMAIN tl, w \in IOOutcomes : RemoveSettle(i, w)

NextCycle ==
    \/ userCalls < MaxGraphCalls /\ UserDelete(NA)
    \/ userCalls < MaxGraphCalls /\ UserStart(NA)
    \/ userCalls < MaxGraphCalls /\ UserStop(NA)
    \/ Steps
    \/ Settles

SpecCycle == InitCycle /\ [][NextCycle]_vars

\* A TaskList whose turn has come: a turn always records an event in the
\* list or retires it, so Steps is enabled exactly when CanStep holds.
CanStep == \E i \in DOMAIN tl : tl[i].phase = "ready"

\* Every adapter TaskList and every file operation settles, and a TaskList
\* whose turn has come takes it (weak fairness of Steps, with its
\* enabling condition written as CanStep).
SpecCycleFair ==
    /\ SpecCycle
    /\ WF_vars(Settles)
    /\ ([]<>(~CanStep) \/ []<><<Steps>>_vars)

\* ------------------------------- SpecDuring: delete during a create
\* Node a is created once over an empty data path and every delete of node
\* a is called while that create is in flight: before or after its adapter
\* has been installed, once or again.

InitDuring == Init

NextDuring ==
    \/ userCalls = 0 /\ UserCreate(NA)
    \/ slot["create"][NA] # 0 /\ UserDelete(NA)
    \/ Run({Ctx(<<>>, <<>>)})

SpecDuring == InitDuring /\ [][NextDuring]_vars

\* ------------------------------ SpecMix: delete, start and stop mixed
\* init() has loaded node a, which has no dependencies and no dependents;
\* the user deletes, starts and stops it in any interleaving, and its
\* adapter, _destroy and the file removals may fail.

InitMix == Is(Loaded({NA}, None, None))

NextMix ==
    \/ UserDelete(NA)
    \/ UserStart(NA)
    \/ UserStop(NA)
    \/ Steps
    \/ Settles

SpecMix == InitMix /\ [][NextMix]_vars

\* ------------------------------------------------------------------ claims

\* The TaskList objects a step constructs, and those that settle in it.
Built == DOMAIN tl' \ DOMAIN tl
SettledNow == DOMAIN tl \ DOMAIN tl'

\* The tasks of delete that run whatever the call captured.
Preliminary == {"abortCreate", "abortStart", "stopNested"}

C2_ExclusiveSlots ==
    \A r \in Res :
        /\ ~(slot["create"][r] # 0 /\ slot["delete"][r] # 0)
        /\ ~(slot["start"][r] # 0 /\ slot["stop"][r] # 0)

\* C3 (as claimed): a start TaskList that settles failed or aborted does not
\* set started[name] to true.
C3_FailedStartNotStarted ==
    [][\A i \in SettledNow :
          (tl[i].op = "start" /\ (tl[i].err \/ tl[i].aborted)
              /\ ~started[tl[i].res])
          => ~started'[tl[i].res]]_vars

\* C4 (as claimed): with no TaskList in flight, the ready markers on disk
\* are the keys of adapters.
C4_ReadyIsAdapters ==
    Quiescent => ready = {r \in Res : adapters[r] # "none"}

\* An edge persisted on disk: A has a ready marker and its dependencies
\* file lists D.
Persisted(a, d) ==
    a \in ready /\ depsFile[a] # <<>> /\ d \in SeqToSet(depsFile[a][1])

\* C6 (as claimed): after init of A's manager has returned, every persisted
\* edge from A to D is in resourceDependents[D], also when init returned an
\* InitError for A.
C6_EdgesAfterInit ==
    \A a \in Res, d \in Res :
        (inited[a.resourceType] /\ Persisted(a, d))
            => a \in SeqToSet(rdeps[d])

\* C6 (amended): after init of A's manager has returned, every persisted
\* edge from a resource A for which init returned no InitError is in
\* resourceDependents[D], once for every occurrence of D in A's file.
C6_EdgesOfLoadedAfterInit ==
    \A a \in Res, d \in Res :
        (inited[a.resourceType] /\ Persisted(a, d) /\ a \notin initErrors)
            => /\ a \in SeqToSet(rdeps[d])
               /\ adapters[a] = "live"

\* C6 witness: init has returned and loaded a resource with a persisted
\* edge into another manager, while another resource failed.
C6_Witness ==
    /\ inited["node"]
    /\ Persisted(NB, WA)
    /\ NB \notin initErrors
    /\ NB \in SeqToSet(rdeps[WA])
    /\ initErrors # {}

\* The on-disk state of r's manager: its ready markers and r's two files.
Disk(r) ==
    [ready |-> {x \in ready : x.resourceType = r.resourceType},
     dependencies |-> depsFile[r],
     dependents |-> dependentsFile[r]]

Tripped(r) == snap[r] # <<>> /\ snap[r][1].phase = "deleted"

\* C5 (as claimed): after a successful create(name) followed by a successful
\* delete(name) the on-disk state of the manager equals the snapshot taken
\* before the create.
C5_RoundTrip ==
    \A r \in Res :
        Tripped(r) =>
            Disk(r) = [ready |-> snap[r][1].ready,
                       dependencies |-> snap[r][1].dependencies,
                       dependents |-> snap[r][1].dependents]

\* C5 (amended): after a successful create(name) followed by a successful
\* delete(name), name has no ready marker and neither of its two files, and
\* no ready marker has been added to the snapshot's; if the delete had no
\* dependents to delete, the other ready markers are those of the snapshot.
C5_RoundTripOfName ==
    \A r \in Res :
        Tripped(r) =>
            /\ Disk(r).ready \subseteq snap[r][1].ready \ {r}
            /\ Disk(r).dependencies = <<>>
            /\ Disk(r).dependents = <<>>
            /\ ~snap[r][1].cascade => Disk(r).ready = snap[r][1].ready \ {r}

\* C5 witness: a round trip has completed.
C5_Witness == Tripped(NA) /\ ~snap[NA][1].cascade /\ NA \notin ready

\* C7: at every quiescent point X is in resourceDependents[D] if and only
\* if X has a persisted dependencies list containing D.
C7_DependentsAreInverse ==
    Quiescent =>
        \A x \in Res, d \in Res : x \in SeqToSet(rdeps[d]) <=> Persisted(x, d)

\* The resources a TaskList delegated to, in the order of the calls, among
\* the first n events of its history, and the delegated lists settled there.
RECURSIVE CallsIn(_, _)
CallsIn(h, n) ==
    IF n = 0 THEN <<>>
    ELSE IF h[n][1] = "call" THEN Append(CallsIn(h, n - 1), h[n][2])
    ELSE CallsIn(h, n - 1)

SettledIn(h, n) == {k \in 1..n : h[k][1] = "settled"}
SettledOkIn(h, n) == {k \in 1..n : h[k][1] = "settled" /\ h[k][3] = "ok"}

IsPrefix(a, b) == Len(a) <= Len(b) /\ a = SubSeq(b, 1, Len(a))

\* The TaskLists of an operation on an existing resource that run it.
Running(op) ==
    {i \in DOMAIN tl : /\ tl[i].op = op /\ tl[i].owner
                       /\ NotNull(tl[i].resourceAdapter)}

\* C8: start of an existing, not yet started X delegates start to
\* directDependents[X] one after another in list order, each delegated start
\* settling successfully before the next begins, and adapter.start of X is
\* invoked only after all of them have settled successfully.
C8_StartOrder ==
    \A i \in Running("start") :
        LET l == tl[i]
            h == l.hist
        IN  ~l.startedCap =>
            \A k \in DOMAIN h :
                /\ IsPrefix(CallsIn(h, k), l.directDependents)
                /\ h[k][1] = "call" =>
                      /\ SettledOkIn(h, k) = SettledIn(h, k)
                      /\ Cardinality(SettledIn(h, k)) = Len(CallsIn(h, k)) - 1
                /\ h[k] = <<"invoke", "adapterStart">> =>
                      /\ CallsIn(h, k) = l.directDependents
                      /\ Cardinality(SettledOkIn(h, k))
                            = Len(l.directDependents)

\* C8 witness: adapter.start of node a is invoked after the starts of nodes
\* b and c.
C8_Witness ==
    \E i \in Running("start") :
        /\ tl[i].res = NA
        /\ tl[i].directDependents = <<NB, NC>>
        /\ tl[i].phase = "leaf"
        /\ KindAt(tl[i]) = "adapterStart"

\* C9: stop of an existing X delegates stop to every stop-capable member of
\* resourceDependents[X], all of which settle before adapter.stop of X is
\* invoked, and delegates stop to the stop-capable members of
\* directDependents[X] only after adapter.stop of X has settled.
C9_StopOrder ==
    \A i \in Running("stop") :
        LET l == tl[i]
            h == l.hist
            n == Len(l.dependents)
        IN  \A k \in DOMAIN h :
                /\ h[k] = <<"invoke", "adapterStop">> =>
                      /\ CallsIn(h, k) = l.dependents
                      /\ Cardinality(SettledOkIn(h, k)) = n
                /\ (h[k][1] = "call" /\ Len(CallsIn(h, k)) > n) =>
                      /\ \E j \in 1..k : h[j] = <<"done", "adapterStop", TRUE>>
                      /\ IsPrefix(SubSeq(CallsIn(h, k), n + 1,
                                         Len(CallsIn(h, k))),
                                  l.directDependents)

\* C9 witness: the stop of node a has stopped node b, then its adapter, and
\* has delegated stop to its created children, nodes b and c.
C9_Witness ==
    \E i \in Running("stop") :
        /\ tl[i].res = NA
        /\ tl[i].dependents = <<NB>>
        /\ KindAt(tl[i]) = "stopCreated"
        /\ CallsIn(tl[i].hist, Len(tl[i].hist)) = <<NB, NB, NC>>

\* The deletes that complete successfully in this step.
Completing ==
    {i \in Running("delete") \cap SettledNow :
        /\ tl[i].pc > Len(DeleteTasks(tl[i].res))
        /\ ~tl[i].err /\ ~tl[i].aborted}

\* The delegations of a delete precede adapter.delete: one to each of the
\* unique dependents, all settled.
DeleteOrder ==
    \A i \in Running("delete") :
        LET l == tl[i]
            h == l.hist
        IN  \A k \in DOMAIN h :
                h[k] = <<"invoke", "adapterDelete">> =>
                    /\ Len(CallsIn(h, k)) = Cardinality(SeqToSet(l.dependents))
                    /\ SeqToSet(CallsIn(h, k)) = SeqToSet(l.dependents)
                    /\ Cardinality(SettledOkIn(h, k)) = Len(CallsIn(h, k))

\* C10: delete of an existing resource delegates delete to each
\* of its unique dependents, the delegated deletes settle before
\* adapter.delete is invoked, and when the delete completes the dependents
\* and the resource are gone from the adapters.
C10_DeleteCascade ==
    /\ []DeleteOrder
    /\ [][\A i \in Completing :
            /\ adapters'[tl[i].res] = "none"
            /\ \A d \in SeqToSet(tl[i].dependents) : adapters'[d] = "none"]_vars

\* No trace of r: no adapter entry, no ready marker, neither file.
Gone(r) ==
    /\ adapters[r] = "none"
    /\ r \notin ready
    /\ depsFile[r] = <<>>
    /\ dependentsFile[r] = <<>>

\* C11: after a create of x was aborted once its create-adapter task had
\* started, onDone(true) invokes delete(x), and at quiescence x has no
\* adapter entry, no ready marker and neither dependency file.
C11_AbortRollsBack ==
    /\ [](\A r \in Res : (Quiescent /\ r \in rolled) => Gone(r))
    /\ [][\A i \in SettledNow :
            (tl[i].op = "create" /\ tl[i].owner /\ tl[i].aborted)
            => \E j \in Built :
                  /\ tl'[j].op = "delete" /\ tl'[j].res = tl[i].res
                  /\ tl'[j].parent = 0]_vars


\* The owner TaskLists of op that settle in the step, by outcome: aborted
\* has priority over failed.
Ending(op, outcome) ==
    {i \in SettledNow :
        /\ tl[i].op = op /\ tl[i].owner
        /\ outcome = (IF tl[i].aborted THEN "aborted"
                      ELSE IF tl[i].err THEN "failed" ELSE "ok")}

\* C12: when the TaskList of a create that is not re-entrant fails, the
\* create slot of the name is cleared and exactly one TaskList is
\* constructed, a top-level delete of the name, which finds the adapter
\* installed if one had reached the context; when it completes, the slot is
\* cleared and no TaskList is constructed.
C12_CreateFailurePolicy ==
    [][
        /\ \A i \in Ending("create", "failed") :
            /\ slot'["create"][tl[i].res] = 0
            /\ Cardinality(Built) = 1
            /\ \A j \in Built :
                  /\ tl'[j].op = "delete" /\ tl'[j].res = tl[i].res
                  /\ tl'[j].parent = 0
                  /\ tl[i].ctx.resourceAdapter = "live"
                        => /\ tl'[j].resourceAdapter = "live"
                           /\ adapters'[tl[i].res] = "live"
        /\ \A i \in Ending("create", "ok") :
            /\ slot'["create"][tl[i].res] = 0
            /\ Built = {}
    ]_vars

\* A create has failed at its create-adapter task with an adapter in its
\* context, and the delete that compensates it is in flight.
C12_Witness ==
    \E j \in DOMAIN tl :
        /\ tl[j].op = "delete" /\ tl[j].parent = 0 /\ tl[j].owner
        /\ tl[j].resourceAdapter = "live"
        /\ ready = {} /\ failures > 0
        /\ slot["create"][tl[j].res] = 0

\* The stop TaskLists a step constructs.
StopsBuilt == {j \in Built : tl'[j].op = "stop"}

\* C13: when the TaskList of a start that is not re-entrant fails or is
\* aborted, the start slot of the name is cleared and exactly one stop is
\* called, for the name and with nobody awaiting its outcome; when it
\* completes, the slot is cleared and no stop is called.
C13_StartFailurePolicy ==
    [][
        /\ \A i \in Ending("start", "failed") \cup Ending("start", "aborted") :
            /\ slot'["start"][tl[i].res] = 0
            /\ Cardinality(StopsBuilt) = 1
            /\ \A j \in StopsBuilt :
                  tl'[j].res = tl[i].res /\ tl'[j].parent = 0
        /\ \A i \in Ending("start", "ok") :
            /\ slot'["start"][tl[i].res] = 0
            /\ StopsBuilt = {}
    ]_vars

\* The start of node a has ended early and the stop that rolls it back is
\* in flight, with nobody awaiting it.
C13_Witness ==
    /\ slot["start"][NA] = 0
    /\ started[NA]
    /\ \E j \in DOMAIN tl :
          /\ tl[j].op = "stop" /\ tl[j].res = NA /\ tl[j].parent = 0
          /\ tl[j].owner /\ tl[j].startedCap
          /\ userCalls = 1 /\ slot["stop"][NA] = j
    /\ \A j \in DOMAIN tl : tl[j].op = "stop"

\* The create TaskLists whose call found a create of the name in flight or
\* an adapter of the name present.
SkippedCreates ==
    {i \in DOMAIN tl :
        /\ tl[i].op = "create"
        /\ ~tl[i].owner \/ NotNull(tl[i].resourceAdapter)}

\* What final setup, the nested start and the maps of the manager hold.
Effects ==
    <<adapters, direct, rdeps, ready, depsFile, dependentsFile, started>>

AbsentDeletes ==
    {i \in DOMAIN tl : tl[i].op = "delete" /\ IsNull(tl[i].resourceAdapter)}

\* The step is a turn of TaskList i.
TurnOf(i) ==
    /\ tl[i].phase = "ready"
    /\ i \in DOMAIN tl' => tl'[i].pc # tl[i].pc \/ tl'[i].hist # tl[i].hist

\* The step adds event e to the history of TaskList i.
Notes(i, e) ==
    /\ i \in DOMAIN tl'
    /\ Len(tl'[i].hist) = Len(tl[i].hist) + 1
    /\ tl'[i].hist[Len(tl'[i].hist)] = e

\* The turn of TaskList i takes it past its nested stop: to the wait for
\* it, to a later task or to the end.
PassesStop(i) ==
    /\ TurnOf(i) /\ ~tl[i].aborted /\ ~tl[i].err
    /\ \E k \in tl[i].pc..Len(DeleteTasks(tl[i].res)) :
          /\ DeleteTasks(tl[i].res)[k] = "stopNested"
          /\ \/ i \notin DOMAIN tl'
             \/ tl'[i].pc > k
             \/ tl'[i].pc = k /\ tl'[i].phase = "wait"

\* C15: the TaskList of a delete called for a name without an adapter never
\* invokes adapter.delete, the delegated deletes or the final cleanup (no
\* destroy, no releasePort, no removal), and its turns leave the adapters,
\* the dependent maps, the ready markers and the dependency files as they
\* were; but its abort tasks do abort the create and the start that were in
\* flight at the call, and it calls the nested stop if started[name] holds
\* at that task's turn.
C15_DeleteOfAbsent ==
    /\ [](\A i \in AbsentDeletes :
             /\ tl[i].phase \in {"ready", "wait"}
             /\ \A k \in DOMAIN tl[i].hist :
                   /\ tl[i].hist[k] # <<"releasePort">>
                   /\ tl[i].hist[k][1] # "invoke"
                   /\ tl[i].hist[k][1] = "call" => tl[i].hist[k][2] = tl[i].res)
    /\ [][\A i \in AbsentDeletes :
             /\ TurnOf(i) =>
                  <<adapters, direct, rdeps, ready, depsFile, dependentsFile>>'
                  = <<adapters, direct, rdeps, ready, depsFile, dependentsFile>>
             /\ (TurnOf(i) /\ ~tl[i].aborted /\ ~tl[i].err /\ tl[i].pc = 1
                   /\ tl[i].createTaskList # 0)
                  => /\ Notes(i, <<"abort", "create">>)
                     /\ tl[i].createTaskList \in DOMAIN tl
                           => tl'[tl[i].createTaskList].aborted
             /\ Notes(i, <<"abort", "start">>)
                  => /\ tl[i].startTaskList # 0
                     /\ tl[i].startTaskList \in DOMAIN tl
                           => tl'[tl[i].startTaskList].aborted
             /\ (TurnOf(i) /\ ~tl[i].aborted /\ ~tl[i].err /\ tl[i].pc <= 2
                   /\ tl[i].hist \in {<<>>, <<<<"abort", "create">>>>}
                   /\ tl[i].startTaskList # 0 /\ HasStart(tl[i].res)
                   /\ (tl[i].pc = 1 => tl[i].createTaskList = 0))
                  => Notes(i, <<"abort", "start">>)
             /\ (PassesStop(i) /\ started[tl[i].res])
                  => /\ i \in DOMAIN tl' /\ tl'[i].phase = "wait"
                     /\ \E j \in Built :
                           /\ tl'[j].op = "stop" /\ tl'[j].res = tl[i].res
                           /\ tl'[j].parent = i]_vars

\* A delete of node a, called when node a had no adapter and a start of it
\* was in flight, has aborted the start and is waiting for the nested stop
\* of the node, which the start had marked started.
C15_Witness ==
    \E i \in AbsentDeletes :
        /\ tl[i].owner /\ tl[i].res = NA
        /\ tl[i].phase = "wait"
        /\ started[NA]
        /\ tl[i].hist[1] = <<"abort", "start">>

\* C16 (as claimed): a final cleanup of delete that has run to its end,
\* whatever its outcome, has called portAllocator.releasePort.
C16_ReleasePortAlways ==
    \A i \in DOMAIN tl :
        (\E k \in DOMAIN tl[i].hist, ok \in BOOLEAN :
            tl[i].hist[k] = <<"done", "finalCleanup", ok>>)
        => \E k \in DOMAIN tl[i].hist : tl[i].hist[k] = <<"releasePort">>

\* The InitErrors the step's init() returns.
Returned == initErrors' \ initErrors

\* C17: init() of a manager returns whatever fails for single resources:
\* it returns one InitError for each ready name whose rehydration or
\* dependency files failed to load, none for another name, and the adapter
\* of every ready name without an InitError is installed.
C17_InitCollectsErrors ==
    [][\A t \in Types : (~inited[t] /\ inited'[t]) =>
          /\ Returned \subseteq ReadyOf(t)
          /\ Cardinality(Returned) = failures' - failures
          /\ \A r \in ReadyOf(t) \ Returned : adapters'[r] = "live"]_vars

\* init() of the node manager has returned an InitError for one of two
\* ready nodes and has installed the adapter of the other.
C17_Witness ==
    /\ inited["node"]
    /\ {NA, NB} \subseteq ready
    /\ \E r \in {NA, NB} :
          /\ r \in initErrors
          /\ adapters[CHOOSE x \in {NA, NB} : x # r] = "live"
          /\ (CHOOSE x \in {NA, NB} : x # r) \notin initErrors

\* C18 (as claimed): after init() has returned, a name is in adapters if and
\* only if it has a ready marker and no InitError was returned for it.
C18_AdaptersAfterInit ==
    \A r \in Res :
        inited[r.resourceType]
        => (adapters[r] # "none" <=> (r \in ready /\ r \notin initErrors))

\* C19 (as claimed): at every quiescent point the latest emission of
\* resources$ was computed from the current adapters: update$ has fired
\* since the last change of the keys, and every key holds an adapter whose
\* resource$ yields the key's entry.
C19_EmissionIsCurrent ==
    Quiescent =>
        \A t \in Types :
            inited[t] =>
                /\ lastEmit[t] = Keys(Cur, t)
                /\ \A r \in lastEmit[t] : adapters[r] = "live"

\* Event e is in the history of TaskList l.
Has(l, e) == \E k \in DOMAIN l.hist : l.hist[k] = e

\* C20: when the first create called on a manager, for a name of a type
\* with startOnCreate, start and stop, completes, the adapter of the name is
\* installed, its ready marker is present, its two dependency files hold
\* the lists of the context, started[name] is set, and the create has
\* called start(name) and seen it complete; and that start completes only
\* after adapter.start has been invoked and has completed.
C20_CreateStartsOnCreate ==
    [][
        /\ \A i \in Ending("create", "ok") :
            (userCalls = 1 /\ StartOnCreate(tl[i].res) /\ HasStart(tl[i].res)
               /\ HasStop(tl[i].res))
            => /\ adapters'[tl[i].res] = "live"
               /\ tl[i].res \in ready'
               /\ depsFile'[tl[i].res] = <<tl[i].ctx.dependencies>>
               /\ dependentsFile'[tl[i].res] = <<tl[i].ctx.dependents>>
               /\ started'[tl[i].res]
               /\ Has(tl[i], <<"call", tl[i].res, TRUE>>)
               /\ Has(tl[i], <<"settled", tl[i].res, "ok">>)
        /\ \A j \in Ending("start", "ok") :
            (userCalls = 1 /\ tl[j].parent \in DOMAIN tl
               /\ tl[tl[j].parent].op = "create")
            => /\ Has(tl[j], <<"invoke", "adapterStart">>)
               /\ Has(tl[j], <<"done", "adapterStart", TRUE>>)
    ]_vars

\* The first create, of node a with a dependency on wallet a, has completed.
C20_Witness ==
    /\ Quiescent /\ userCalls = 1 /\ failures = 0
    /\ adapters[NA] = "live" /\ started[NA] /\ NA \in ready
    /\ depsFile[NA] = <<<<WA>>>> /\ dependentsFile[NA] = <<<<>>>>

\* C21 (as claimed): the ready marker of a name never exists while a create
\* of the name is still in flight.
C21_ReadyMeansCreated ==
    \A r \in ready : slot["create"][r] = 0

\* The start TaskLists that are not re-entrant and were called with a stop
\* of the name in flight, and the stop TaskLists that are not re-entrant,
\* found an adapter and were called with a start of the name in flight.
StartsOverStop ==
    {i \in DOMAIN tl : tl[i].op = "start" /\ tl[i].owner
                        /\ tl[i].stopTaskList # 0}
StopsOverStart ==
    {i \in DOMAIN tl : tl[i].op = "stop" /\ tl[i].owner
                        /\ NotNull(tl[i].resourceAdapter)
                        /\ tl[i].startTaskList # 0}

\* C22: the first thing such a start does is to abort the stop that was in
\* flight at its call, and the first thing such a stop does is to abort the
\* start: nothing is started, stopped or delegated before, and the aborted
\* TaskList, if it has not settled yet, is marked aborted by that step.
C22_StartStopAbortEachOther ==
    /\ [](\A i \in StartsOverStop :
             tl[i].hist # <<>> => tl[i].hist[1] = <<"abort", "stop">>)
    /\ [](\A i \in StopsOverStart :
             tl[i].hist # <<>> => tl[i].hist[1] = <<"abort", "start">>)
    /\ [][\A i \in DOMAIN tl :
             /\ (i \in StartsOverStop /\ TurnOf(i) /\ tl[i].hist = <<>>
                   /\ ~tl[i].aborted)
                  => /\ Notes(i, <<"abort", "stop">>)
                     /\ tl[i].stopTaskList \in DOMAIN tl
                           => tl'[tl[i].stopTaskList].aborted
             /\ (i \in StopsOverStart /\ TurnOf(i) /\ tl[i].hist = <<>>
                   /\ ~tl[i].aborted)
                  => /\ Notes(i, <<"abort", "start">>)
                     /\ tl[i].startTaskList \in DOMAIN tl
                           => tl'[tl[i].startTaskList].aborted]_vars

\* A stop of node a, called while node a was being started, has aborted the
\* start, which has not settled yet, and has gone on to the adapter's stop.
C22_Witness ==
    \E i \in StopsOverStart :
        /\ tl[i].res = NA
        /\ Has(tl[i], <<"invoke", "adapterStop">>)
        /\ tl[i].startTaskList \in DOMAIN tl
        /\ tl[tl[i].startTaskList].aborted

\* The place of an event of the delete of r among the steps of delete:
\* abort create, abort start, the nested stop called, the nested stop
\* settled, the dependents, adapter.delete, the final cleanup.
DeleteRank(r, e) ==
    CASE e = <<"abort", "create">> -> 1
      [] e = <<"abort", "start">> -> 2
      [] e[1] = "call" /\ e[2] = r -> 3
      [] e[1] = "settled" /\ e[2] = r -> 4
      [] e[1] \in {"call", "settled"} /\ e[2] # r -> 5
      [] e[1] \in {"skip", "invoke", "done"} /\ e[2] = "deleteDeps" -> 5
      [] e[1] \in {"skip", "invoke", "done"} /\ e[2] = "adapterDelete" -> 6
      [] OTHER -> 7

\* The delete has begun to delete: a dependent's delete called, or
\* adapter.delete or the final cleanup invoked.
Destroys(l) ==
    \E k \in DOMAIN l.hist :
        /\ DeleteRank(l.res, l.hist[k]) >= 5
        /\ l.hist[k][1] \in {"call", "invoke"}

\* C23: the TaskList of a delete takes its steps in order: the create in
\* flight at the call aborted, then the start in flight at the call aborted,
\* then the nested stop called (whenever started[name] holds at that step)
\* and settled, and only then the deletes of the dependents, adapter.delete
\* and the final cleanup; after a nested stop that did not complete nothing
\* is deleted.
C23_DeletePreparesFirst ==
    /\ [](\A i \in DOMAIN tl : tl[i].op = "delete" =>
             LET l == tl[i] IN
             /\ \A k, m \in DOMAIN l.hist :
                   k < m => DeleteRank(l.res, l.hist[k])
                              <= DeleteRank(l.res, l.hist[m])
             /\ Destroys(l) =>
                   /\ l.createTaskList # 0 => Has(l, <<"abort", "create">>)
                   /\ (l.startTaskList # 0 /\ HasStart(l.res))
                         => Has(l, <<"abort", "start">>)
                   /\ \A f \in BOOLEAN :
                         Has(l, <<"call", l.res, f>>)
                         => Has(l, <<"settled", l.res, "ok">>)
             /\ \A o \in {"failed", "aborted"} :
                   Has(l, <<"settled", l.res, o>>) => ~Destroys(l))
    /\ [][\A i \in DOMAIN tl :
             (tl[i].op = "delete" /\ PassesStop(i) /\ started[tl[i].res]
                /\ HasStop(tl[i].res))
             => /\ i \in DOMAIN tl' /\ tl'[i].phase = "wait"
                /\ \E j \in Built :
                      /\ tl'[j].op = "stop" /\ tl'[j].res = tl[i].res
                      /\ tl'[j].parent = i]_vars

\* A delete of node a, called while its create and the start nested in it
\* were in flight, has aborted both, has seen its nested stop complete and
\* has called the delete of node b, which depends on node a.
C23_Witness ==
    \E i \in DOMAIN tl :
        /\ tl[i].op = "delete" /\ tl[i].res = NA /\ tl[i].owner
        /\ Has(tl[i], <<"abort", "create">>)
        /\ Has(tl[i], <<"abort", "start">>)
        /\ Has(tl[i], <<"settled", NA, "ok">>)
        /\ Has(tl[i], <<"call", NB, TRUE>>)

\* How TaskList l settles at its next turn: aborted has priority over
\* failed.
OutcomeOf(l) ==
    IF l.aborted THEN "aborted" ELSE IF l.err THEN "failed" ELSE "ok"

\* The stop TaskLists of r that settle in the step with outcome o.
StopsEnding(r, o) ==
    {i \in SettledNow : tl[i].op = "stop" /\ tl[i].res = r
                         /\ OutcomeOf(tl[i]) = o}

\* C24: started[name] is reset exactly by the step in which a stop TaskList
\* of the name completes; a stop TaskList that fails or is aborted leaves
\* it as it is; and whenever a stop that is not re-entrant settles, its
\* slot is cleared and update$ has emitted the adapters of that moment.
C24_StopResetsStarted ==
    [][\A r \in Res :
          /\ (started[r] /\ ~started'[r]) => StopsEnding(r, "ok") # {}
          /\ StopsEnding(r, "ok") # {} => ~started'[r]
          /\ (StopsEnding(r, "failed") \cup StopsEnding(r, "aborted") # {}
                /\ StopsEnding(r, "ok") = {})
               => started'[r] = started[r]
          /\ \A o \in {"ok", "failed", "aborted"} :
                \A i \in StopsEnding(r, o) :
                   tl[i].owner =>
                      /\ slot'["stop"][r] = 0
                      /\ lastEmit'[r.resourceType]
                            = {x \in Res : x.resourceType = r.resourceType
                                            /\ adapters'[x] # "none"}]_vars

\* The stop of node a, called when node a and its created child b had been
\* started, has stopped the adapter and seen the stop of node b complete:
\* node b is not started any more.
C24_Witness ==
    \E i \in DOMAIN tl :
        /\ tl[i].op = "stop" /\ tl[i].res = NA /\ tl[i].owner
        /\ tl[i].startedCap /\ failures = 0
        /\ Has(tl[i], <<"done", "adapterStop", TRUE>>)
        /\ Has(tl[i], <<"settled", NB, "ok">>)
        /\ ~started[NB] /\ started[NA]

\* C25 (as claimed): when the TaskList of a delete that is not re-entrant
\* and found an adapter completes, the name has no adapter, destroy() has
\* been called on the adapter it had, the ready marker and the two
\* dependency files are gone, the two dependent maps hold nothing for the
\* name, started[name] does not hold and the delete slot is cleared.
C25_DeletedIsGone ==
    [][\A i \in Ending("delete", "ok") :
          NotNull(tl[i].resourceAdapter) =>
             /\ Has(tl[i], <<"invoke", "finalCleanup">>)
             /\ Has(tl[i], <<"releasePort">>)
             /\ adapters'[tl[i].res] = "none"
             /\ tl[i].res \notin ready'
             /\ depsFile'[tl[i].res] = <<>>
             /\ dependentsFile'[tl[i].res] = <<>>
             /\ direct'[tl[i].res] = <<>>
             /\ rdeps'[tl[i].res] = <<>>
             /\ ~started'[tl[i].res]
             /\ slot'["delete"][tl[i].res] = 0]_vars

\* C26 (as claimed): every key of adapters maps to an adapter, never to
\* undefined.
C26_NoUndefinedAdapter ==
    \A r \in Res : adapters[r] # "undef"

\* C27 (as claimed): started[name] holds only for a name that has an
\* adapter.
C27_StartedHasAdapter ==
    \A r \in Res : started[r] => adapters[r] = "live"

\* C28 (as claimed): the step in which the TaskList of a re-entrant call
\* runs leaves the adapters, started, the two dependent maps and the four
\* slots as they were and calls no operation.
C28_ReentrantRunIsInert ==
    [][\A i \in DOMAIN tl :
          (~tl[i].owner /\ TurnOf(i))
          => /\ <<adapters, started, direct, rdeps, slot>>'
                  = <<adapters, started, direct, rdeps, slot>>
             /\ Built = {}]_vars

\* C29: with cyclic dependency edges every TaskList of a delete, start or
\* stop settles: again and again no TaskList is in flight, and then every
\* slot is clear.
C29_CyclesTerminate ==
    /\ []<>Quiescent
    /\ [](Quiescent => \A op \in Ops, r \in Res : slot[op][r] = 0)

\* The delete of node a has called the delete of node b, which has called
\* the delete of node a in turn and has seen it settle at once.
C29_Witness ==
    \E i, j \in DOMAIN tl :
        /\ tl[i].op = "delete" /\ tl[i].res = NA /\ tl[i].parent = 0
        /\ tl[j].op = "delete" /\ tl[j].res = NB /\ tl[j].parent = i
        /\ Has(tl[j], <<"call", NA, FALSE>>)
        /\ Has(tl[j], <<"settled", NA, "ok">>)

\* C30: when delete(name) has been called while create(name) was in flight,
\* then once every TaskList has settled the resource does not exist: name
\* has no adapter entry, no ready marker and neither dependency file.
C30_DeleteDuringCreate ==
    (Quiescent /\ userCalls >= 2) => Gone(NA)

\* The TaskLists that are running the adapter's TaskList of kind for r.
RunningAdapter(r, kind) ==
    {j \in DOMAIN tl :
        tl[j].res = r /\ tl[j].phase = "leaf" /\ KindAt(tl[j]) = kind}

\* C31: the adapter-level operations of a resource exclude each other in
\* time: adapter.delete is never invoked while the adapter's start or stop
\* TaskList is still running, and adapter.start is never invoked while a
\* delete of the name is in flight.
C31_AdapterOpsExclusive ==
    [][\A i \in DOMAIN tl :
        /\ Notes(i, <<"invoke", "adapterDelete">>)
           => /\ RunningAdapter(tl[i].res, "adapterStart") = {}
              /\ RunningAdapter(tl[i].res, "adapterStop") = {}
        /\ Notes(i, <<"invoke", "adapterStart">>)
           => slot["delete"][tl[i].res] = 0
    ]_vars

=========================================================================
